---- MODULE Spec2Model ----
(***************************************************************************)
(* Model of riffusion/streamlit/tasks/interpolation.py: the interpolation  *)
(* schedule (np.linspace followed by the power warp), the cached engine    *)
(* call run_interpolation, and the orchestration prepare_interpolation     *)
(* with its zero-crossfade concatenation.                                  *)
(*                                                                         *)
(* The schedule is computed in IEEE-754 binary64, as numpy computes it:    *)
(* a float is a sign, a 53-bit mantissa and an exponent, and every         *)
(* arithmetic operation is the exact result rounded to nearest, ties to    *)
(* even.  Mantissas are wider than TLC's integers, so they are kept as     *)
(* little-endian sequences of limbs.                                       *)
(***************************************************************************)
EXTENDS Integers, Sequences, FiniteSets, TLC

VARIABLES
    pc,                \* position of the running call
    args,              \* arguments of prepare_interpolation
    cuda,              \* torch.cuda.is_available()
    device,            \* local: device
    init_image,        \* local: init_image
    alphas,            \* local: alphas
    i,                 \* local: loop index of enumerate(alphas), 0-based
    audio_bytes_list,  \* local: audio_bytes_list
    image_list,        \* local: image_list
    concat_segment,    \* local: concat_segment
    returned,          \* the value prepare_interpolation returned
    raised,            \* the exception that left the call
    calls,             \* history: the run_interpolation calls made, in order
    assetLoads,        \* history: the seed_images files opened, in order
    cache,             \* st.cache_data store of run_interpolation
    computes,          \* history: executions of run_interpolation's body
    last               \* history: outcome of the latest run_interpolation call

vars == <<pc, args, cuda, device, init_image, alphas, i, audio_bytes_list,
          image_list, concat_segment, returned, raised, calls, assetLoads,
          cache, computes, last>>

\* Python's None
None == [type |-> "NoneType"]

(***************************************************************************)
(* Natural numbers of any size: little-endian limb sequences, no leading   *)
(* zero limb, <<>> is zero.                                                *)
(***************************************************************************)
Base == 2^14

RECURSIVE BNorm(_)
BNorm(a) ==
    IF a = <<>> THEN a
    ELSE IF a[Len(a)] = 0 THEN BNorm(SubSeq(a, 1, Len(a) - 1)) ELSE a

RECURSIVE BAddC(_, _, _)
BAddC(a, b, c) ==
    IF a = <<>> /\ b = <<>> THEN (IF c = 0 THEN <<>> ELSE <<c>>)
    ELSE LET x == IF a = <<>> THEN 0 ELSE Head(a)
             y == IF b = <<>> THEN 0 ELSE Head(b)
             s == x + y + c
         IN  <<s % Base>> \o BAddC(IF a = <<>> THEN a ELSE Tail(a),
                                   IF b = <<>> THEN b ELSE Tail(b),
                                   s \div Base)

BAdd(a, b) == BAddC(a, b, 0)

\* a - b for a >= b
RECURSIVE BSubC(_, _, _)
BSubC(a, b, c) ==
    IF a = <<>> THEN <<>>
    ELSE LET y == IF b = <<>> THEN 0 ELSE Head(b)
             d == Head(a) - y - c
         IN  <<IF d < 0 THEN d + Base ELSE d>>
             \o BSubC(Tail(a), IF b = <<>> THEN b ELSE Tail(b),
                      IF d < 0 THEN 1 ELSE 0)

BSub(a, b) == BNorm(BSubC(a, b, 0))

\* -1, 0, 1 as a < b, a = b, a > b
RECURSIVE BCmpSame(_, _, _)
BCmpSame(a, b, k) ==
    IF k = 0 THEN 0
    ELSE IF a[k] < b[k] THEN -1
    ELSE IF a[k] > b[k] THEN 1
    ELSE BCmpSame(a, b, k - 1)

BCmp(a, b) ==
    IF Len(a) < Len(b) THEN -1
    ELSE IF Len(a) > Len(b) THEN 1
    ELSE BCmpSame(a, b, Len(a))

\* a * k for 0 <= k < Base
RECURSIVE BMulSmallC(_, _, _)
BMulSmallC(a, k, c) ==
    IF a = <<>> THEN (IF c = 0 THEN <<>> ELSE <<c>>)
    ELSE LET s == Head(a) * k + c
         IN  <<s % Base>> \o BMulSmallC(Tail(a), k, s \div Base)

BMulSmall(a, k) == BNorm(BMulSmallC(a, k, 0))

RECURSIVE BMul(_, _)
BMul(a, b) ==
    IF a = <<>> \/ b = <<>> THEN <<>>
    ELSE BNorm(BAdd(BMulSmall(a, Head(b)), <<0>> \o BMul(a, Tail(b))))

\* quotient and remainder of a by d, 0 < d < Base
RECURSIVE BDivStep(_, _)
BDivStep(a, d) ==
    IF a = <<>> THEN [q |-> <<>>, r |-> 0]
    ELSE LET hi  == BDivStep(Tail(a), d)
             cur == hi.r * Base + Head(a)
         IN  [q |-> <<cur \div d>> \o hi.q, r |-> cur % d]

BDivSmall(a, d) == BNorm(BDivStep(a, d).q)

BZeros(n) == [k \in 1..n |-> 0]

\* a * 2^s and floor(a / 2^s)
BShl(a, s) ==
    IF a = <<>> THEN a
    ELSE BZeros(s \div 14) \o BMulSmall(a, 2^(s % 14))

BShr(a, s) ==
    IF Len(a) <= s \div 14 THEN <<>>
    ELSE BDivSmall(SubSeq(a, (s \div 14) + 1, Len(a)), 2^(s % 14))

RECURSIVE IntBitLen(_)
IntBitLen(x) == IF x = 0 THEN 0 ELSE 1 + IntBitLen(x \div 2)

BBitLen(a) == IF a = <<>> THEN 0 ELSE 14 * (Len(a) - 1) + IntBitLen(a[Len(a)])

BIsOdd(a) == a # <<>> /\ a[1] % 2 = 1

(***************************************************************************)
(* binary64: the value s * m * 2^e with s in {-1, 1} and m of exactly      *)
(* MantBits bits, or zero.  Equal floats have equal records.               *)
(***************************************************************************)
MantBits == 53

FZero == [s |-> 0, m |-> <<>>, e |-> 0]

\* round-to-nearest-even of sgn * mag * 2^e
RoundD(sgn, mag, e) ==
    IF sgn = 0 \/ mag = <<>> THEN FZero
    ELSE LET L == BBitLen(mag) IN
         IF L <= MantBits
         THEN [s |-> sgn, m |-> BShl(mag, MantBits - L), e |-> e - (MantBits - L)]
         ELSE LET sh   == L - MantBits
                  q    == BShr(mag, sh)
                  r    == BSub(mag, BShl(q, sh))
                  half == BShl(<<1>>, sh - 1)
                  c    == BCmp(r, half)
                  up   == c > 0 \/ (c = 0 /\ BIsOdd(q))
                  q2   == IF up THEN BAdd(q, <<1>>) ELSE q
              IN  IF BBitLen(q2) > MantBits
                  THEN [s |-> sgn, m |-> BShr(q2, 1), e |-> e + sh + 1]
                  ELSE [s |-> sgn, m |-> q2, e |-> e + sh]

Min(a, b) == IF a < b THEN a ELSE b

\* the exact sum of two dyadic numbers s * m * 2^e, not rounded
ExactAdd(x, y) ==
    IF x.s = 0 THEN y
    ELSE IF y.s = 0 THEN x
    ELSE LET e == Min(x.e, y.e)
             X == BShl(x.m, x.e - e)
             Y == BShl(y.m, y.e - e)
             c == BCmp(X, Y)
         IN  IF x.s = y.s THEN [s |-> x.s, m |-> BAdd(X, Y), e |-> e]
             ELSE IF c = 0 THEN FZero
             ELSE IF c > 0 THEN [s |-> x.s, m |-> BSub(X, Y), e |-> e]
             ELSE [s |-> y.s, m |-> BSub(Y, X), e |-> e]

FNeg(x) == [s |-> 0 - x.s, m |-> x.m, e |-> x.e]
FAbs(x) == [s |-> IF x.s = 0 THEN 0 ELSE 1, m |-> x.m, e |-> x.e]

FAdd(x, y) == LET t == ExactAdd(x, y) IN RoundD(t.s, t.m, t.e)
FSub(x, y) == FAdd(x, FNeg(y))
FMul(x, y) == RoundD(x.s * y.s, BMul(x.m, y.m), x.e + y.e)

\* x / d for an integer 0 < d < Base: the quotient carried 28 bits past the
\* mantissa, with a sticky bit for a nonzero remainder
FDivInt(x, d) ==
    IF x.s = 0 THEN FZero
    ELSE LET qr == BDivStep(BShl(x.m, 28), d)
         IN  RoundD(x.s,
                    BAdd(BShl(BNorm(qr.q), 1), IF qr.r = 0 THEN <<>> ELSE <<1>>),
                    x.e - 29)

FromInt(k) ==
    IF k = 0 THEN FZero
    ELSE RoundD(IF k < 0 THEN -1 ELSE 1, <<IF k < 0 THEN 0 - k ELSE k>>, 0)

FOne  == FromInt(1)
FTwo  == FromInt(2)
FHalf == FDivInt(FOne, 2)

\* |x - y| <= c * 2^k for dyadic x, y and an integer 0 < c < Base, exactly
AbsDiffLe(x, y, c, k) ==
    LET t == ExactAdd(x, FNeg(y)) IN
    \/ t.s = 0
    \/ LET e == Min(t.e, k)
       IN  BCmp(BShl(t.m, t.e - e), BShl(<<c>>, k - e)) <= 0

FLess(x, y) == ExactAdd(x, FNeg(y)).s < 0

(***************************************************************************)
(* The interpolation schedule, lines 386-391.                              *)
(***************************************************************************)
MaxInterpolationSteps == 20

LinspaceNoEndpoint(num) ==
    [k \in 1..num |-> FMul(FromInt(k - 1), FDivInt(FOne, num))]

\* np.linspace(0, 1, num), num >= 0: arange(0, num) * (delta / div) + start
\* with the last sample set to stop, and arange(0, num) * delta when div = 0
Linspace(num) ==
    LET start == FZero
        stop  == FOne
        div   == num - 1
        delta == FSub(stop, start)
    IN  [k \in 1..num |->
            IF div > 0
            THEN IF k = num THEN stop
                 ELSE FAdd(FMul(FromInt(k - 1), FDivInt(delta, div)), start)
            ELSE FAdd(FMul(FromInt(k - 1), delta), start)]

\* np.sign
FSign(x) == FromInt(x.s)

\* x ** alpha_power for the exponents 0.0, 1.0 and 2.0
FPow(x, alpha_power) ==
    IF alpha_power = 0 THEN FOne
    ELSE IF alpha_power = 1 THEN x
    ELSE FMul(x, x)

PowerScaleNoSign(alpha, alpha_power) ==
    LET alphas_shifted == FSub(FMul(alpha, FTwo), FOne)
    IN  FDivInt(FAdd(FPow(FAbs(alphas_shifted), alpha_power), FOne), 2)

\* (np.abs(alphas_shifted) ** alpha_power * np.sign(alphas_shifted) + 1) / 2
\* of alphas_shifted = alphas * 2 - 1, for one element
PowerScale(alpha, alpha_power) ==
    LET alphas_shifted == FSub(FMul(alpha, FTwo), FOne)
    IN  FDivInt(FAdd(FMul(FPow(FAbs(alphas_shifted), alpha_power),
                          FSign(alphas_shifted)),
                     FOne),
                2)

Schedule(num, alpha_power) ==
    LET lin == Linspace(num)
    IN  [k \in 1..num |-> PowerScale(lin[k], alpha_power)]

Powers == {0, 1, 2}

(***************************************************************************)
(* Values the caller passes.  render() builds a PromptInput from the raw   *)
(* text of a widget (lines 118-126), so a PromptInput with an empty prompt *)
(* exists; create_prompt_input is not called by prepare_interpolation.     *)
(***************************************************************************)
PromptInput(prompt, seed) == [prompt |-> prompt, seed |-> seed]

PromptsA == {None, PromptInput("", 42), PromptInput("church bells", 42)}
PromptsB == {None, PromptInput("", 42), PromptInput("jazz", 42)}
BuiltinSeeds == {"og_beat", "agile", "marim", "motorway", "vibes"}
SeedNames == BuiltinSeeds \cup {"custom"}
ImageFiles == {None, [type |-> "Image", name |-> "upload.png"]}
Extensions == {"mp3", "wav"}

MaxSteps == 3
StepCounts == (-1..MaxSteps) \cup {MaxInterpolationSteps + 1}
SchedCounts == -1..(MaxInterpolationSteps + 1)

ArgSpace(counts) ==
    [extension : Extensions, num_interpolation_steps : counts,
     num_inference_steps : {50}, init_image_name : SeedNames,
     init_image_file : ImageFiles, alpha_power : Powers,
     prompt_a : PromptsA, prompt_b : PromptsB]

\* Python truth value of None, of a dataclass instance, of an image object
Truthy(x) == x # None

ValueErrorPrompts ==
    [type |-> "ValueError",
     msg |-> "Both prompts (prompt_a and prompt_b) must be provided for interpolation."]
ValueErrorSeed ==
    [type |-> "ValueError",
     msg |-> "Custom seed image file must be provided when using 'custom'."]
ValueErrorSamples ==
    [type |-> "ValueError", msg |-> "Number of samples must be non-negative."]
IndexErrorEmpty == [type |-> "IndexError", msg |-> "list index out of range"]
EngineError == [type |-> "RuntimeError", msg |-> "raised inside run_interpolation"]

(***************************************************************************)
(* Lines 363-370: the device and the prompt check.                         *)
(***************************************************************************)
DeviceOf(available) == IF available THEN "cuda" ELSE "cpu"

PromptCheck(a) ==
    IF ~Truthy(a.prompt_a) \/ ~Truthy(a.prompt_b) THEN ValueErrorPrompts ELSE None

CheckPrompts ==
    /\ pc = "start"
    /\ device' = DeviceOf(cuda)
    /\ IF PromptCheck(args) # None
       THEN pc' = "raised" /\ raised' = PromptCheck(args)
       ELSE pc' = "seed" /\ raised' = raised
    /\ UNCHANGED <<args, cuda, init_image, alphas, i, audio_bytes_list, image_list,
                   concat_segment, returned, calls, assetLoads, cache, computes, last>>

(***************************************************************************)
(* Lines 372-384: the seed image.                                          *)
(***************************************************************************)
Asset(name) == [kind |-> "seed_images", name |-> name, mode |-> "RGB"]
Convert(file) == [kind |-> "upload", name |-> file.name, mode |-> "RGB"]

SeedImagePreferFile(init_image_name, init_image_file) ==
    IF Truthy(init_image_file)
    THEN [raise |-> None, image |-> Convert(init_image_file), opened |-> <<>>]
    ELSE [raise |-> None, image |-> Asset(init_image_name),
          opened |-> <<init_image_name>>]

SeedImage(init_image_name, init_image_file) ==
    IF init_image_name = "custom"
    THEN IF ~Truthy(init_image_file)
         THEN [raise |-> ValueErrorSeed, image |-> None, opened |-> <<>>]
         ELSE [raise |-> None, image |-> Convert(init_image_file), opened |-> <<>>]
    ELSE [raise |-> None, image |-> Asset(init_image_name),
          opened |-> <<init_image_name>>]

ResolveSeedImage ==
    /\ pc = "seed"
    /\ LET r == SeedImage(args.init_image_name, args.init_image_file)
       IN  /\ assetLoads' = assetLoads \o r.opened
           /\ init_image' = r.image
           /\ IF r.raise # None
              THEN pc' = "raised" /\ raised' = r.raise
              ELSE pc' = "alphas" /\ raised' = raised
    /\ UNCHANGED <<args, cuda, device, alphas, i, audio_bytes_list, image_list,
                   concat_segment, returned, calls, cache, computes, last>>

(***************************************************************************)
(* Lines 386-394: the schedule; np.linspace refuses a negative num.        *)
(***************************************************************************)
ComputeAlphas ==
    /\ pc = "alphas"
    /\ IF args.num_interpolation_steps < 0
       THEN pc' = "raised" /\ raised' = ValueErrorSamples /\ alphas' = alphas
       ELSE /\ pc' = "loop" /\ raised' = raised
            /\ alphas' = Schedule(args.num_interpolation_steps, args.alpha_power)
    /\ i' = 0 /\ audio_bytes_list' = <<>> /\ image_list' = <<>>
    /\ UNCHANGED <<args, cuda, device, init_image, concat_segment, returned,
                   calls, assetLoads, cache, computes, last>>

(***************************************************************************)
(* Lines 287-325: run_interpolation under st.cache_data.  The store is     *)
(* keyed by every argument; the body runs on a miss, its result is stored  *)
(* when it returns and nothing is stored when it raises.                   *)
(***************************************************************************)
DEFAULT_CHECKPOINT == "streamlit_util.DEFAULT_CHECKPOINT"

CallArgs(inputs, image, dev, extension) ==
    [inputs |-> inputs, init_image |-> image, checkpoint |-> DEFAULT_CHECKPOINT,
     device |-> dev, extension |-> extension]

CacheKeyNoImage(call) ==
    <<call.inputs, call.checkpoint, call.device, call.extension>>

CacheKey(call) ==
    <<call.inputs, call.init_image, call.checkpoint, call.device, call.extension>>

\* length of the clip the pipeline returns for a call: fixed per argument
\* tuple, different between tuples
FrameCount(call) ==
    (IF FLess(call.inputs.alpha, FHalf) THEN 1 ELSE 2)
    + (IF call.init_image.kind = "upload" THEN 1 ELSE 0)

\* the (image, audio_bytes) pair made by execution number run of the body
Compute(call, run) ==
    [image |-> [run |-> run],
     audio |-> [format |-> call.extension,
                frames |-> [k \in 1..FrameCount(call) |-> <<run, k>>],
                pos |-> 0]]

Outcomes(call) ==
    IF CacheKey(call) \in DOMAIN cache
    THEN {[kind |-> "hit", value |-> cache[CacheKey(call)]]}
    ELSE {[kind |-> "computed", value |-> Compute(call, Len(computes) + 1)],
          [kind |-> "raised", value |-> EngineError]}

CacheAfter(call, o) ==
    IF o.kind = "computed"
    THEN [k \in DOMAIN cache \cup {CacheKey(call)} |->
             IF k = CacheKey(call) THEN o.value ELSE cache[k]]
    ELSE cache

ComputesAfter(call, o) ==
    IF o.kind = "hit" THEN computes
    ELSE Append(computes, [args |-> call, ok |-> o.kind = "computed",
                           call |-> Len(calls) + 1])

(***************************************************************************)
(* Lines 396-418: one iteration of the loop over enumerate(alphas).        *)
(***************************************************************************)
StepAlphaReversed(als, idx) == als[Len(als) - idx]

StepAlpha(als, idx) == als[idx + 1]

BuildInputsSelectedSeed(alpha, a) ==
    [alpha |-> alpha, num_inference_steps |-> a.num_inference_steps,
     seed_image_id |-> a.init_image_name, start |-> a.prompt_a, end |-> a.prompt_b]

BuildInputs(alpha, a) ==
    [alpha |-> alpha, num_inference_steps |-> a.num_inference_steps,
     seed_image_id |-> "og_beat", start |-> a.prompt_a, end |-> a.prompt_b]

\* an exception of run_interpolation is not caught: it leaves the call
LoopStepSwallow(o) ==
    IF o.kind = "raised"
    THEN [pc |-> "loop", raised |-> None, i |-> i + 1,
          audio |-> audio_bytes_list, images |-> image_list]
    ELSE [pc |-> "loop", raised |-> None, i |-> i + 1,
          audio |-> Append(audio_bytes_list, o.value.audio),
          images |-> Append(image_list, o.value.image)]

LoopStepEffect(o) ==
    IF o.kind = "raised"
    THEN [pc |-> "raised", raised |-> o.value, i |-> i,
          audio |-> audio_bytes_list, images |-> image_list]
    ELSE [pc |-> "loop", raised |-> None, i |-> i + 1,
          audio |-> Append(audio_bytes_list, o.value.audio),
          images |-> Append(image_list, o.value.image)]

LoopStep ==
    /\ pc = "loop"
    /\ i < Len(alphas)
    /\ LET call == CallArgs(BuildInputs(StepAlpha(alphas, i), args), init_image,
                            device, args.extension)
       IN  \E o \in Outcomes(call) :
             LET eff == LoopStepEffect(o)
             IN  /\ calls' = Append(calls, call)
                 /\ last' = [args |-> call, kind |-> o.kind, value |-> o.value]
                 /\ cache' = CacheAfter(call, o)
                 /\ computes' = ComputesAfter(call, o)
                 /\ pc' = eff.pc
                 /\ raised' = eff.raised
                 /\ i' = eff.i
                 /\ audio_bytes_list' = eff.audio
                 /\ image_list' = eff.images
    /\ UNCHANGED <<args, cuda, device, init_image, alphas, concat_segment,
                   returned, assetLoads>>

(***************************************************************************)
(* Lines 420-424: decode and concatenate.  A segment is its sequence of    *)
(* frames; its duration is its length.                                     *)
(***************************************************************************)
Decode(audio_bytes) == audio_bytes.frames

\* AudioSegment.append: with crossfade c the last c frames of seg1 and the
\* first c of seg2 are blended into c frames
AppendSegment(seg1, seg2, crossfade) ==
    IF crossfade = 0 THEN seg1 \o seg2
    ELSE SubSeq(seg1, 1, Len(seg1) - crossfade)
         \o [k \in 1..crossfade |->
               <<"fade", seg1[Len(seg1) - crossfade + k], seg2[k]>>]
         \o SubSeq(seg2, crossfade + 1, Len(seg2))

RECURSIVE AppendAll(_, _, _)
AppendAll(acc, rest, crossfade) ==
    IF rest = <<>> THEN acc
    ELSE AppendAll(AppendSegment(acc, Head(rest), crossfade), Tail(rest), crossfade)

ConcatSegmentsCrossfade(audio_segments) ==
    AppendAll(audio_segments[1], Tail(audio_segments), 1)

ConcatSegments(audio_segments) ==
    AppendAll(audio_segments[1], Tail(audio_segments), 0)

Concatenate ==
    /\ pc = "loop"
    /\ i = Len(alphas)
    /\ LET audio_segments ==
             [k \in 1..Len(audio_bytes_list) |-> Decode(audio_bytes_list[k])]
       IN  IF audio_segments = <<>>
           THEN pc' = "raised" /\ raised' = IndexErrorEmpty
                /\ concat_segment' = concat_segment
           ELSE pc' = "export" /\ raised' = raised
                /\ concat_segment' = ConcatSegments(audio_segments)
    /\ UNCHANGED <<args, cuda, device, init_image, alphas, i, audio_bytes_list,
                   image_list, returned, calls, assetLoads, cache, computes, last>>

(***************************************************************************)
(* Lines 426-430: export into a fresh buffer, rewind, return.  Where       *)
(* export leaves the buffer's position is pydub's business.                *)
(***************************************************************************)
Export(segment, format, endpos) ==
    [format |-> format, frames |-> segment, pos |-> endpos]

Seek(buffer, pos) == [buffer EXCEPT !.pos = pos]

FinalBufferNoSeek(segment, format, endpos) == Export(segment, format, endpos)

FinalBuffer(segment, format, endpos) == Seek(Export(segment, format, endpos), 0)

ExportReturn ==
    /\ pc = "export"
    /\ \E endpos \in {0, Len(concat_segment)} :
         returned' = FinalBuffer(concat_segment, args.extension, endpos)
    /\ pc' = "done"
    /\ UNCHANGED <<args, cuda, device, init_image, alphas, i, audio_bytes_list,
                   image_list, concat_segment, raised, calls, assetLoads, cache,
                   computes, last>>

(***************************************************************************)
(* One call of prepare_interpolation, from any arguments.                  *)
(***************************************************************************)
Fresh ==
    /\ device = None /\ init_image = None /\ alphas = <<>> /\ i = 0
    /\ audio_bytes_list = <<>> /\ image_list = <<>> /\ concat_segment = None
    /\ returned = None /\ raised = None /\ calls = <<>> /\ assetLoads = <<>>
    /\ cache = <<>> /\ computes = <<>> /\ last = None

Init ==
    /\ pc = "start"
    /\ args \in ArgSpace(StepCounts)
    /\ cuda \in BOOLEAN
    /\ Fresh

Next ==
    \/ CheckPrompts
    \/ ResolveSeedImage
    \/ ComputeAlphas
    \/ LoopStep
    \/ Concatenate
    \/ ExportReturn

Spec == Init /\ [][Next]_vars

(***************************************************************************)
(* The schedule alone: the state before line 386 of a call whose prompts   *)
(* and seed image passed, for every step count from -1 to one past the     *)
(* largest the step-count widget allows.                                   *)
(***************************************************************************)
InitSched ==
    /\ pc = "alphas"
    /\ args \in [extension : {"mp3"}, num_interpolation_steps : SchedCounts,
                 num_inference_steps : {50}, init_image_name : {"og_beat"},
                 init_image_file : {None}, alpha_power : Powers,
                 prompt_a : {PromptInput("church bells", 42)},
                 prompt_b : {PromptInput("jazz", 42)}]
    /\ cuda \in BOOLEAN
    /\ device = DeviceOf(cuda)
    /\ init_image = Asset("og_beat")
    /\ assetLoads = <<"og_beat">>
    /\ alphas = <<>> /\ i = 0
    /\ audio_bytes_list = <<>> /\ image_list = <<>> /\ concat_segment = None
    /\ returned = None /\ raised = None /\ calls = <<>>
    /\ cache = <<>> /\ computes = <<>> /\ last = None

SchedSpec == InitSched /\ [][ComputeAlphas]_vars

(***************************************************************************)
(* run_interpolation alone: any sequence of at most MaxCalls calls in one  *)
(* process, the store starting empty.                                      *)
(***************************************************************************)
MaxCalls == 3

CallSpace ==
    {CallArgs(BuildInputs(alpha, [num_inference_steps |-> 50,
                                  prompt_a |-> PromptInput("church bells", 42),
                                  prompt_b |-> PromptInput("jazz", 42)]),
              image, "cpu", extension) :
        alpha \in {FZero, FHalf},
        image \in {Asset("og_beat"), Asset("agile")},
        extension \in Extensions}

InitCache ==
    /\ pc = "idle"
    /\ args = None
    /\ cuda = FALSE
    /\ Fresh

CallRunInterpolation ==
    /\ pc = "idle"
    /\ Len(calls) < MaxCalls
    /\ \E call \in CallSpace :
         \E o \in Outcomes(call) :
            /\ calls' = Append(calls, call)
            /\ last' = [args |-> call, kind |-> o.kind, value |-> o.value]
            /\ cache' = CacheAfter(call, o)
            /\ computes' = ComputesAfter(call, o)
    /\ UNCHANGED <<pc, args, cuda, device, init_image, alphas, i, audio_bytes_list,
                   image_list, concat_segment, returned, raised, assetLoads>>

CacheSpec == InitCache /\ [][CallRunInterpolation]_vars

(***************************************************************************)
(* Properties.                                                             *)
(***************************************************************************)
Terminal == {"done", "raised"}
PastSeed ==
    \/ pc \in {"alphas", "loop", "export", "done"}
    \/ pc = "raised" /\ raised \notin {ValueErrorPrompts, ValueErrorSeed}

IsBlank(p) == IF p = None THEN TRUE ELSE p.prompt = ""

BothPromptsGiven == Truthy(args.prompt_a) /\ Truthy(args.prompt_b)
CustomWithoutFile ==
    args.init_image_name = "custom" /\ ~Truthy(args.init_image_file)

BadSchedule ==
    \/ args.num_interpolation_steps \notin 1..MaxInterpolationSteps
    \/ args.alpha_power <= 0

NoBlankPrompt == ~IsBlank(args.prompt_a) /\ ~IsBlank(args.prompt_b)

RECURSIVE Flatten(_)
Flatten(ss) == IF ss = <<>> THEN <<>> ELSE Head(ss) \o Flatten(Tail(ss))

RECURSIVE SumLen(_)
SumLen(ss) == IF ss = <<>> THEN 0 ELSE Len(Head(ss)) + SumLen(Tail(ss))

\* C1: a run in which prompt A or prompt B is blank (None, or a PromptInput
\* whose text is empty) ends with the missing-prompt error, and no
\* run_interpolation call has been made by then.  Stated for runs whose
\* other arguments are valid, so that no other refusal is in play.
C1_BlankPromptRejected ==
    ((IsBlank(args.prompt_a) \/ IsBlank(args.prompt_b))
     /\ ~CustomWithoutFile /\ ~BadSchedule) =>
        /\ calls = <<>>
        /\ (pc \in Terminal => raised = ValueErrorPrompts)

BuiltinLoaded ==
    (args.init_image_name # "custom" /\ PastSeed) =>
        /\ init_image = Asset(args.init_image_name)
        /\ assetLoads = <<args.init_image_name>>

C3_BadScheduleRejected ==
    (BadSchedule /\ NoBlankPrompt /\ ~CustomWithoutFile) =>
        /\ calls = <<>>
        /\ pc \notin {"export", "done"}
        /\ raised # IndexErrorEmpty

\* C4: in a run that returns, exactly num_interpolation_steps calls were
\* made, call j carrying schedule coefficient j, and the returned audio is
\* the results of calls 1..n joined in that order; for 3 steps and exponent
\* 1 the calls carry 0, 1/2, 1.
C4_RequestsInScheduleOrder ==
    pc = "done" =>
        /\ Len(calls) = args.num_interpolation_steps
        /\ alphas = Schedule(args.num_interpolation_steps, args.alpha_power)
        /\ \A j \in 1..Len(calls) :
              /\ calls[j].inputs.alpha = alphas[j]
              /\ CacheKey(calls[j]) \in DOMAIN cache
        /\ returned.frames =
              Flatten([j \in 1..Len(calls) |->
                          cache[CacheKey(calls[j])].audio.frames])
        /\ (args.num_interpolation_steps = 3 /\ args.alpha_power = 1) =>
              [j \in 1..3 |-> calls[j].inputs.alpha] = <<FZero, FHalf, FOne>>

C4_Witness ==
    /\ pc = "done"
    /\ args.num_interpolation_steps = 3 /\ args.alpha_power = 1
    /\ Len(returned.frames) > Len(calls)

EngineFailed == last # None /\ last.kind = "raised"

AbortedAtFailingStep ==
    /\ pc = "raised"
    /\ Len(calls) = i + 1
    /\ calls[i + 1] = last.args
    /\ Len(audio_bytes_list) = i
    /\ concat_segment = None
    /\ returned = None

ServedOwnPair ==
    (last # None /\ last.kind # "raised") =>
        LET r == last.value.image.run
        IN  /\ r \in 1..Len(computes)
            /\ computes[r].ok
            /\ computes[r].args = last.args
            /\ last.value = Compute(last.args, r)
            /\ CacheKey(last.args) \in DOMAIN cache
            /\ cache[CacheKey(last.args)] = last.value
            /\ IF last.kind = "hit" THEN computes[r].call < Len(calls)
                                    ELSE computes[r].call = Len(calls)

\* C6 as stated: the body of run_interpolation runs at most once per
\* argument tuple, and a call gets the pair computed for its own tuple.
C6_Original ==
    /\ \A r1, r2 \in 1..Len(computes) :
          computes[r1].args = computes[r2].args => r1 = r2
    /\ ServedOwnPair

\* C6 amended: the body of run_interpolation returns at most once per
\* argument tuple; it runs again for a tuple only when every earlier
\* execution for that tuple raised (nothing is stored for those); a call
\* gets the pair computed for its own tuple.
C6_Amended ==
    /\ \A r1, r2 \in 1..Len(computes) :
          (r1 < r2 /\ computes[r1].args = computes[r2].args) => ~computes[r1].ok
    /\ ServedOwnPair

C6_Witness ==
    /\ last # None /\ last.kind = "hit"
    /\ \E r \in 1..Len(computes) :
          computes[r].args = last.args /\ ~computes[r].ok

ValidSchedule ==
    /\ pc = "loop"
    /\ args.num_interpolation_steps \in 1..MaxInterpolationSteps
    /\ args.alpha_power > 0

\* C7 as stated: for 1 <= steps <= 20 and exponent > 0 the schedule starts
\* at 0 and ends at 1.
C7_Original ==
    ValidSchedule =>
        /\ alphas[1] = FZero
        /\ alphas[Len(alphas)] = FOne

\* C7 amended: for 2 <= steps <= 20 and exponent > 0 the schedule starts at
\* 0 and ends at 1; for steps = 1 it is the single value 0.
C7_Amended ==
    ValidSchedule =>
        /\ Len(alphas) = args.num_interpolation_steps
        /\ alphas[1] = FZero
        /\ alphas[Len(alphas)] = IF Len(alphas) = 1 THEN FZero ELSE FOne

C7_Witness ==
    /\ ValidSchedule
    /\ args.num_interpolation_steps = MaxInterpolationSteps
    /\ args.alpha_power = 2
    /\ alphas[MaxInterpolationSteps] = FOne

\* |x - num / den| <= 2^k, exactly
NearRatio(x, num, den, k) ==
    AbsDiffLe([s |-> x.s, m |-> BMulSmall(x.m, den), e |-> x.e],
              FromInt(num), den, k)

\* C8 as stated: for 1 <= steps <= 20 and exponent 1 the schedule is equal
\* to np.linspace(0, 1, steps).
C8_Original ==
    (ValidSchedule /\ args.alpha_power = 1) =>
        alphas = Linspace(args.num_interpolation_steps)

\* C8 amended: for 1 <= steps <= 20 and exponent 1 the schedule has steps
\* elements, the first is 0, the last is 1 when steps > 1, and element i is
\* within 2^-55 of element i of np.linspace(0, 1, steps) and within 2^-53
\* of i / (steps - 1): equal up to binary64 rounding, not bit for bit.
C8_Amended ==
    (ValidSchedule /\ args.alpha_power = 1) =>
        LET n == args.num_interpolation_steps
        IN  /\ Len(alphas) = n
            /\ alphas[1] = FZero
            /\ n > 1 => alphas[n] = FOne
            /\ \A k \in 1..n :
                  /\ AbsDiffLe(alphas[k], Linspace(n)[k], 1, -55)
                  /\ n > 1 => NearRatio(alphas[k], k - 1, n - 1, -53)

C8_Witness ==
    /\ ValidSchedule /\ args.alpha_power = 1
    /\ args.num_interpolation_steps = 7
    /\ alphas[2] # Linspace(7)[2]

\* C9: the concatenated segment lasts as long as the per-step segments
\* together, for one step or more, and the returned buffer is at position 0.
C9_DurationIsSum ==
    /\ pc \in {"export", "done"} =>
          /\ Len(audio_bytes_list) >= 1
          /\ Len(concat_segment) =
                SumLen([k \in 1..Len(audio_bytes_list) |->
                           Decode(audio_bytes_list[k])])
    /\ pc = "done" =>
          /\ returned.frames = concat_segment
          /\ returned.pos = 0

C9_Witness ==
    /\ pc = "done"
    /\ Len(audio_bytes_list) = 3
    /\ Len(audio_bytes_list[1].frames) # Len(audio_bytes_list[3].frames)
    /\ returned.pos = 0

SameButAlpha(c, d) ==
    [c EXCEPT !.inputs.alpha = FZero] = [d EXCEPT !.inputs.alpha = FZero]

CallsShareRunSettings ==
    \A j \in 1..Len(calls) :
        /\ calls[j].inputs.start = args.prompt_a
        /\ calls[j].inputs.end = args.prompt_b
        /\ calls[j].inputs.num_inference_steps = args.num_inference_steps
        /\ calls[j].inputs.seed_image_id = "og_beat"
        /\ calls[j].init_image = init_image
        /\ calls[j].device = device
        /\ calls[j].extension = args.extension
        /\ SameButAlpha(calls[j], calls[1])

\* C10: all calls of one run carry the run's prompt A, prompt B, seed
\* image, inference step count, device and format, and differ in alpha
\* only; seed_image_id is "og_beat" whatever seed was selected; the
\* arguments and the resolved seed image are never changed by a step.
C10_SharedSettings ==
    /\ []CallsShareRunSettings
    /\ [][/\ args' = args
          /\ pc \notin {"start", "seed"} => init_image' = init_image]_vars

C10_Witness ==
    /\ Len(calls) >= 2
    /\ args.init_image_name = "agile"
    /\ calls[1].inputs.alpha # calls[2].inputs.alpha
    /\ calls[2].inputs.seed_image_id = "og_beat"
====
